---- MODULE Spec2Model ----
(***************************************************************************)
(* Model of the numeric-input controller (src/src/use-numeric-input.ts,    *)
(* src/src/numeric-input.utils.ts, src/src/numeric-input.tsx).             *)
(*                                                                         *)
(* Strings are sequences of one-character strings.  The full-width and     *)
(* look-alike glyphs are written with two-letter names: "F0".."F9" the     *)
(* full-width digits, "F." "F," "F-" the full-width period, comma and      *)
(* hyphen, "K-" the katakana long-vowel mark, "M-" the mathematical minus. *)
(*                                                                         *)
(* Numbers are exact decimals [nan, neg, ip, fd]: sign, integer part and   *)
(* the fractional digits with no trailing zero.  Within the lengths the    *)
(* model draws (fewer than 15 significant digits) a double and its         *)
(* shortest decimal rendering agree with the exact decimal.                *)
(***************************************************************************)
EXTENDS Integers, Sequences, FiniteSets, TLC

(***************************************************************************)
(* Characters and strings                                                  *)
(***************************************************************************)
\* e evaluated once and handed to F as a value
With(e, F(_)) == CHOOSE r \in {F(x) : x \in {e}} : TRUE

Digits == <<"0", "1", "2", "3", "4", "5", "6", "7", "8", "9">>

FullWidthDigits == <<"F0", "F1", "F2", "F3", "F4", "F5", "F6", "F7", "F8", "F9">>

DigitSet == {"0", "1", "2", "3", "4", "5", "6", "7", "8", "9"}

IsDigit(c) == c \in DigitSet

DigitVal(c) == (CHOOSE i \in 1..10 : Digits[i] = c) - 1

DigitChar(n) == Digits[n + 1]

\* s.replace(<every char not satisfying keep>, '')
Filter(s, keep(_)) == SelectSeq(s, keep)

Count(s, c) == Cardinality({i \in 1..Len(s) : s[i] = c})

Includes(s, c) == \E i \in 1..Len(s) : s[i] = c

\* s.indexOf(c), 1-based; 0 when absent
IndexOf(s, c) ==
  IF \E i \in 1..Len(s) : s[i] = c
  THEN CHOOSE i \in 1..Len(s) : s[i] = c /\ \A j \in 1..(i - 1) : s[j] # c
  ELSE 0

StartsWith(s, p) == Len(s) >= Len(p) /\ SubSeq(s, 1, Len(p)) = p

EndsWith(s, p) == Len(s) >= Len(p) /\ SubSeq(s, Len(s) - Len(p) + 1, Len(s)) = p

\* s.slice(i) with a 1-based first index
SliceFrom(s, i) == SubSeq(s, i, Len(s))

\* the index of the first character of s that does not satisfy P, Len(s) + 1 if none
FirstNot(s, P(_)) ==
  IF \A i \in 1..Len(s) : P(s[i]) THEN Len(s) + 1
  ELSE CHOOSE i \in 1..Len(s) : ~P(s[i]) /\ \A j \in 1..(i - 1) : P(s[j])

\* the index of the last character of s that does not satisfy P, 0 if none
LastNot(s, P(_)) ==
  IF \A i \in 1..Len(s) : P(s[i]) THEN 0
  ELSE CHOOSE i \in 1..Len(s) : ~P(s[i]) /\ \A j \in (i + 1)..Len(s) : P(s[j])

IsZeroChar(c) == c = "0"

\* s.replace(/^0+/, '')
StripLeadingZeros(s) == SliceFrom(s, FirstNot(s, IsZeroChar))

(***************************************************************************)
(* Numbers                                                                 *)
(***************************************************************************)
NaN == [nan |-> TRUE, neg |-> FALSE, ip |-> 0, fd |-> <<>>]

Num(neg, ip, fd) == [nan |-> FALSE, neg |-> neg, ip |-> ip, fd |-> fd]

NumOfInt(n) == Num(n < 0, IF n < 0 THEN -n ELSE n, <<>>)

\* Number.MAX_VALUE is about 1.8e308; the model keeps the overflow of a
\* decimal literal to Infinity and scales the largest finite magnitude down
\* to an eight-digit one.
MAX_VALUE == 99999999

\* +Infinity and -Infinity: a magnitude above every finite one
Infinity(neg) == Num(neg, MAX_VALUE + 1, <<>>)

\* Number.isFinite
IsFinite(x) == ~x.nan /\ x.ip <= MAX_VALUE

IsZero(x) == ~x.nan /\ x.ip = 0 /\ x.fd = <<>>

\* 0.f < 0.g for digit sequences without trailing zeros: at the first index
\* where they differ g has the larger digit, or f is a proper prefix of g
FracLess(f, g) ==
  \E i \in 1..Len(g) :
    /\ \A j \in 1..(i - 1) : j <= Len(f) /\ f[j] = g[j]
    /\ (i > Len(f) \/ DigitVal(f[i]) < DigitVal(g[i]))

MagLess(x, y) == x.ip < y.ip \/ (x.ip = y.ip /\ FracLess(x.fd, y.fd))

MagEq(x, y) == x.ip = y.ip /\ x.fd = y.fd

\* x === y on numbers: NaN equals nothing, -0 equals 0
NumEq(x, y) ==
  /\ ~x.nan /\ ~y.nan
  /\ MagEq(x, y)
  /\ (x.neg = y.neg \/ IsZero(x))

\* x < y on numbers: false when either is NaN
NumLess(x, y) ==
  /\ ~x.nan /\ ~y.nan
  /\ IF IsZero(x) /\ IsZero(y) THEN FALSE
     ELSE IF x.neg /\ ~y.neg THEN TRUE
     ELSE IF ~x.neg /\ y.neg THEN FALSE
     ELSE IF x.neg THEN MagLess(y, x)
     ELSE MagLess(x, y)

NumGreater(x, y) == NumLess(y, x)

\* Math.abs
Abs(x) == [x EXCEPT !.neg = FALSE]

RECURSIVE NatToStr(_)
NatToStr(n) ==
  IF n < 10 THEN <<DigitChar(n)>>
  ELSE NatToStr(n \div 10) \o <<DigitChar(n % 10)>>

RECURSIVE StrToNatUpTo(_, _)
\* the number the first k digits of s denote
StrToNatUpTo(s, k) ==
  IF k = 0 THEN 0 ELSE 10 * StrToNatUpTo(s, k - 1) + DigitVal(s[k])

StrToNat(s) == StrToNatUpTo(s, Len(s))

StripTrailingZeros(s) == SubSeq(s, 1, LastNot(s, IsZeroChar))

AllDigits(s) == \A i \in 1..Len(s) : IsDigit(s[i])

IsSpace(c) == c = " "

\* str.trim()
Trim(s) == SubSeq(s, FirstNot(s, IsSpace), LastNot(s, IsSpace))

\* An unsigned decimal literal: digits, digits., digits.digits or .digits
UnsignedToNumber(neg, u) ==
  With(IndexOf(u, "."), LAMBDA p :
    LET ipart == IF p = 0 THEN u ELSE SubSeq(u, 1, p - 1)
        fpart == IF p = 0 THEN <<>> ELSE SliceFrom(u, p + 1)
    IN IF /\ AllDigits(ipart) /\ AllDigits(fpart)
          /\ Len(ipart) + Len(fpart) > 0
       THEN IF StrToNat(ipart) > MAX_VALUE THEN Infinity(neg)
            ELSE Num(neg, StrToNat(ipart), StripTrailingZeros(fpart))
       ELSE NaN)

\* Number(str): StringToNumber on decimal literals.  Exponent, hexadecimal
\* and Infinity literals are outside the texts the model draws.
ToNumber(str) ==
  With(Trim(str), LAMBDA t :
    IF t = <<>> THEN NumOfInt(0)
    ELSE IF Head(t) = "-" THEN With(Tail(t), LAMBDA u : UnsignedToNumber(TRUE, u))
    ELSE IF Head(t) = "+" THEN With(Tail(t), LAMBDA u : UnsignedToNumber(FALSE, u))
    ELSE UnsignedToNumber(FALSE, t))

\* Number.prototype.toString for a finite number in plain decimal notation
NumToString(x) ==
  (IF x.neg /\ ~IsZero(x) THEN <<"-">> ELSE <<>>)
    \o NatToStr(x.ip)
    \o (IF x.fd = <<>> THEN <<>> ELSE <<".">> \o x.fd)

(***************************************************************************)
(* Configuration (the hook's options).  An optional option is a record     *)
(* [def, v]; separator is a string, empty when absent (an empty separator  *)
(* is falsy in formatValue and parseValueProp alike).                      *)
(***************************************************************************)
None == [def |-> FALSE, v |-> 0]

Some(x) == [def |-> TRUE, v |-> x]

\* Number.MAX_SAFE_INTEGER is 2^53 - 1; the model keeps the comparison and
\* the clamp and scales the ceiling down to a four-digit one.
MAX_SAFE_INTEGER == 9999

(***************************************************************************)
(* numeric-input.utils.ts                                                  *)
(***************************************************************************)
\* the conversion without its replace of the katakana long-vowel mark
ConvCharNoKatakana(c) ==
  IF \E i \in 1..10 : FullWidthDigits[i] = c
    THEN Digits[CHOOSE i \in 1..10 : FullWidthDigits[i] = c]
  ELSE IF c = "F." THEN "."
  ELSE IF c = "F," THEN ","
  ELSE IF c \in {"F-", "M-"} THEN "-"
  ELSE c

ConvChar(c) ==
  IF \E i \in 1..10 : FullWidthDigits[i] = c
    THEN Digits[CHOOSE i \in 1..10 : FullWidthDigits[i] = c]
  ELSE IF c = "F." THEN "."
  ELSE IF c = "F," THEN ","
  ELSE IF c \in {"F-", "K-", "M-"} THEN "-"
  ELSE c

convertFullWidthToHalfWidth(str) == [i \in 1..Len(str) |-> ConvChar(str[i])]

isMinusSign(str) == str \in {<<"-">>, <<"F-">>, <<"K-">>, <<"M-">>}

normalizeMinusSign(str) == IF isMinusSign(str) THEN <<"-">> ELSE str

\* str.replace(new RegExp(`[${escapeRegex(separator)}]`, 'g'), ''): every
\* character that occurs in the separator is removed
RemoveSeparatorChars(str, separator) ==
  LET keep(c) == ~Includes(separator, c) IN Filter(str, keep)

\* value is [kind |-> "undefined" | "string" | "number", s, n]
parseValueProp(v, separator) ==
  IF v.kind = "undefined" \/ (v.kind = "string" /\ v.s = <<>>) THEN NaN
  ELSE IF v.kind = "number" THEN v.n
  ELSE ToNumber(IF separator # <<>> THEN RemoveSeparatorChars(v.s, separator)
                ELSE v.s)

AllowedChar(c, allowDecimal, allowNegative) ==
  \/ IsDigit(c)
  \/ (allowDecimal /\ c = ".")
  \/ (allowNegative /\ c = "-")

\* the replace callback keeps a minus only at offset 0
KeepMinusAtStartOnly(s) ==
  LET NotMinus(c) == c # "-"
  IN IF s # <<>> /\ Head(s) = "-" THEN <<"-">> \o Filter(Tail(s), NotMinus)
     ELSE Filter(s, NotMinus)

NormalizeMinus(s, allowNegative) ==
  LET NotMinus(c) == c # "-"
  IN IF allowNegative
     THEN With(IF Count(s, "-") > 1 THEN KeepMinusAtStartOnly(s) ELSE s, LAMBDA s1 :
            IF Includes(s1, "-") /\ ~StartsWith(s1, <<"-">>)
            THEN <<"-">> \o Filter(s1, NotMinus)
            ELSE s1)
     ELSE Filter(s, NotMinus)

\* the decimal handling keeping the last point instead of the first
NormalizeDecimalKeepsLast(s, allowDecimal) ==
  LET NotPoint(c) == c # "."
      lastDecimalIndex == CHOOSE i \in 0..Len(s) :
                            /\ (i > 0 => s[i] = ".")
                            /\ \A j \in (i + 1)..Len(s) : s[j] # "."
  IN IF allowDecimal
     THEN IF Count(s, ".") > 1
          THEN Filter(SubSeq(s, 1, lastDecimalIndex - 1), NotPoint)
                 \o SliceFrom(s, lastDecimalIndex)
          ELSE s
     ELSE Filter(s, NotPoint)

NormalizeDecimal(s, allowDecimal) ==
  LET NotPoint(c) == c # "."
  IN IF allowDecimal
     THEN IF Count(s, ".") > 1
          THEN With(IndexOf(s, "."), LAMBDA firstDecimalIndex :
                 SubSeq(s, 1, firstDecimalIndex)
                   \o Filter(SliceFrom(s, firstDecimalIndex + 1), NotPoint))
          ELSE s
     ELSE Filter(s, NotPoint)

RECURSIVE CapLoop(_, _, _, _, _)
\* the for loop of the maxLength branch, from index i on
CapLoop(s, i, maxLength, digitsSeen, decimalAdded) ==
  IF i > Len(s) THEN <<>>
  ELSE IF IsDigit(s[i])
       THEN IF digitsSeen < maxLength
            THEN <<s[i]>> \o CapLoop(s, i + 1, maxLength, digitsSeen + 1, decimalAdded)
            ELSE CapLoop(s, i + 1, maxLength, digitsSeen, decimalAdded)
  ELSE IF s[i] = "." /\ ~decimalAdded
       THEN IF digitsSeen > 0
            THEN <<".">> \o CapLoop(s, i + 1, maxLength, digitsSeen, TRUE)
            ELSE CapLoop(s, i + 1, maxLength, digitsSeen, decimalAdded)
  ELSE CapLoop(s, i + 1, maxLength, digitsSeen, decimalAdded)

DigitCount(s) == Len(Filter(s, IsDigit))

\* if (maxLength) { ... }: an absent maxLength and maxLength = 0 are both falsy
ApplyMaxLength(s, maxLength) ==
  IF maxLength.def /\ maxLength.v # 0 /\ DigitCount(s) > maxLength.v
  THEN LET hasMinus == StartsWith(s, <<"-">>)
       IN (IF hasMinus THEN <<"-">> ELSE <<>>)
            \o CapLoop(s, IF hasMinus THEN 2 ELSE 1, maxLength.v, 0, FALSE)
  ELSE s

normalizeNumericInput(input, allowDecimal, allowNegative, maxLength) ==
  LET allowed(c) == AllowedChar(c, allowDecimal, allowNegative)
  IN With(Filter(input, allowed), LAMBDA stripped :
       With(NormalizeMinus(stripped, allowNegative), LAMBDA signed :
         With(NormalizeDecimal(signed, allowDecimal), LAMBDA pointed :
           ApplyMaxLength(pointed, maxLength))))

(***************************************************************************)
(* use-numeric-input.ts: formatValue and the non-composing part of         *)
(* handleValueChange                                                       *)
(***************************************************************************)
RECURSIVE GroupFromNoBoundary(_, _, _)
\* the replace without its \B: a separator may follow the sign
GroupFromNoBoundary(s, j, separator) ==
  IF j > Len(s) THEN <<>>
  ELSE (IF /\ j > 1
           /\ AllDigits(SliceFrom(s, j))
           /\ (Len(s) - j + 1) % 3 = 0
        THEN separator ELSE <<>>)
         \o <<s[j]>> \o GroupFromNoBoundary(s, j + 1, separator)

RECURSIVE GroupFrom(_, _, _)
\* integerPart.replace(/\B(?=(\d{3})+(?!\d))/g, separator), from index j on:
\* the separator goes before s[j] when s[j-1] is a digit and s[j..] is a
\* positive multiple of three digits
GroupFrom(s, j, separator) ==
  IF j > Len(s) THEN <<>>
  ELSE (IF /\ j > 1
           /\ IsDigit(s[j - 1])
           /\ AllDigits(SliceFrom(s, j))
           /\ (Len(s) - j + 1) % 3 = 0
        THEN separator ELSE <<>>)
         \o <<s[j]>> \o GroupFrom(s, j + 1, separator)

\* formatValue grouping the whole of valueStr instead of integerPart
formatValueWholeString(numValue, separator) ==
  IF numValue.nan \/ ~IsFinite(numValue) THEN <<>>
  ELSE With(NumToString(numValue), LAMBDA valueStr :
         With(IndexOf(valueStr, "."), LAMBDA p :
           IF separator = <<>> THEN valueStr
           ELSE IF p # 0
             THEN GroupFrom(valueStr, 1, separator) \o SliceFrom(valueStr, p)
           ELSE GroupFrom(valueStr, 1, separator)))

formatValue(numValue, separator) ==
  IF numValue.nan \/ ~IsFinite(numValue) THEN <<>>
  ELSE With(NumToString(numValue), LAMBDA valueStr :
         With(IndexOf(valueStr, "."), LAMBDA p :
           IF separator = <<>> THEN valueStr
           ELSE IF p # 0
             THEN With(SubSeq(valueStr, 1, p - 1), LAMBDA integerPart :
                    GroupFrom(integerPart, 1, separator) \o SliceFrom(valueStr, p))
           ELSE GroupFrom(valueStr, 1, separator)))

Emission(v, f) == [value |-> v, formattedValue |-> f]

\* what one run of handleValueChange past the composition check leaves:
\* the last setRawInputValue, the one onValueChange call, and the token the
\* run reached (rawValue when it returned)
Run(raw, v, f, token) ==
  [rawInputValue |-> raw, em |-> Emission(v, f), token |-> token]

\* the decimal-place limit keeping one digit too many
LimitDecimalPlacesOffByOne(rawValue, c) ==
  With(IndexOf(rawValue, "."), LAMBDA decimalIndex :
    LET integerPart == SubSeq(rawValue, 1, decimalIndex - 1)
        decimalPart == SliceFrom(rawValue, decimalIndex + 1)
    IN IF /\ c.maxDecimalPlaces.def /\ c.allowDecimal
          /\ decimalIndex # 0
          /\ Len(decimalPart) > c.maxDecimalPlaces.v
       THEN integerPart \o <<".">> \o SubSeq(decimalPart, 1, c.maxDecimalPlaces.v + 1)
       ELSE rawValue)

LimitDecimalPlaces(rawValue, c) ==
  With(IndexOf(rawValue, "."), LAMBDA decimalIndex :
    LET integerPart == SubSeq(rawValue, 1, decimalIndex - 1)
        decimalPart == SliceFrom(rawValue, decimalIndex + 1)
    IN IF /\ c.maxDecimalPlaces.def /\ c.allowDecimal
          /\ decimalIndex # 0
          /\ Len(decimalPart) > c.maxDecimalPlaces.v
       THEN integerPart \o <<".">> \o SubSeq(decimalPart, 1, c.maxDecimalPlaces.v)
       ELSE rawValue)

shouldKeepSingleZero(rawValue) ==
  rawValue \in {<<"0">>, <<"-", "0">>, <<"0", ".">>, <<"-", "0", ".">>}

\* the branch for a token with a decimal point at index p of withoutMinus
RemoveLeadingZerosDecimal(prefix, withoutMinus, p) ==
  With(StripLeadingZeros(SubSeq(withoutMinus, 1, p - 1)), LAMBDA cleanedInteger :
    With(SliceFrom(withoutMinus, p + 1), LAMBDA decimalPart :
      IF cleanedInteger = <<>> /\ decimalPart # <<>>
        THEN prefix \o <<"0", ".">> \o decimalPart
      ELSE IF cleanedInteger = <<>> THEN prefix \o <<"0">>
      ELSE prefix \o cleanedInteger \o <<".">> \o decimalPart))

RemoveLeadingZeros(rawValue) ==
  LET hasMinus == StartsWith(rawValue, <<"-">>)
      prefix == IF hasMinus THEN <<"-">> ELSE <<>>
  IN IF shouldKeepSingleZero(rawValue) THEN rawValue
     ELSE With(IF hasMinus THEN Tail(rawValue) ELSE rawValue, LAMBDA withoutMinus :
            With(IndexOf(withoutMinus, "."), LAMBDA p :
              IF p # 0 THEN RemoveLeadingZerosDecimal(prefix, withoutMinus, p)
              ELSE With(StripLeadingZeros(withoutMinus), LAMBDA cleaned :
                     IF cleaned = <<>> THEN prefix \o <<"0">> ELSE prefix \o cleaned)))

\* isSingleZero without its two startsWith tests
isSingleZeroExact(rawValue) ==
  \/ rawValue = <<"0">>
  \/ rawValue = <<"-", "0">>

isSingleZero(rawValue) ==
  \/ rawValue = <<"0">>
  \/ rawValue = <<"-", "0">>
  \/ StartsWith(rawValue, <<"0", ".">>)
  \/ StartsWith(rawValue, <<"-", "0", ".">>)

\* endsWithDecimalPoint testing for the doubled point only
endsWithDecimalPointDoubled(rawValue, allowDecimal) ==
  allowDecimal /\ EndsWith(rawValue, <<".", ".">>)

endsWithDecimalPoint(rawValue, allowDecimal) ==
  allowDecimal /\ EndsWith(rawValue, <<".">>) /\ ~EndsWith(rawValue, <<".", ".">>)

\* the two clamping ifs, on the running value; shared shape of the
\* pipeline's clamp and the blur clamp
ClampMin(v, c) ==
  IF c.minValue.def /\ NumLess(v, c.minValue.v) THEN c.minValue.v ELSE v

ClampMax(v, c) ==
  IF c.maxValue.def /\ NumGreater(v, c.maxValue.v) THEN c.maxValue.v ELSE v

Clamp(v, c) == With(ClampMin(v, c), LAMBDA raised : ClampMax(raised, c))

\* shouldClamp / shouldUpdate: one of the two ifs fired
ClampFires(v, c) ==
  \/ (c.minValue.def /\ NumLess(v, c.minValue.v))
  \/ With(ClampMin(v, c), LAMBDA raised :
        c.maxValue.def /\ NumGreater(raised, c.maxValue.v))

\* handleValueChange passing true for allowNegative to normalizeNumericInput
SanitizedTokenAnySign(c, inputValue) ==
  LET NotE(ch) == ch \notin {"e", "E"}
  IN With(Filter(convertFullWidthToHalfWidth(inputValue), NotE), LAMBDA noExponent :
       With(normalizeNumericInput(noExponent, c.allowDecimal, TRUE, c.maxLength),
            LAMBDA normalized : LimitDecimalPlaces(normalized, c)))

\* handleValueChange passing true for allowDecimal to normalizeNumericInput
SanitizedTokenAnyPoint(c, inputValue) ==
  LET NotE(ch) == ch \notin {"e", "E"}
  IN With(Filter(convertFullWidthToHalfWidth(inputValue), NotE), LAMBDA noExponent :
       With(normalizeNumericInput(noExponent, TRUE, c.allowNegative, c.maxLength),
            LAMBDA normalized : LimitDecimalPlaces(normalized, c)))

\* the token handleValueChange works on: glyph conversion, e/E removal,
\* normalizeNumericInput, the decimal-place limit
SanitizedToken(c, inputValue) ==
  LET NotE(ch) == ch \notin {"e", "E"}
  IN With(Filter(convertFullWidthToHalfWidth(inputValue), NotE), LAMBDA noExponent :
       With(normalizeNumericInput(noExponent, c.allowDecimal, c.allowNegative, c.maxLength),
            LAMBDA normalized : LimitDecimalPlaces(normalized, c)))

\* ... then the leading-zero removal
CanonicalToken(c, inputValue) ==
  With(SanitizedToken(c, inputValue), LAMBDA t :
    IF t = <<>> \/ t = <<"-">> THEN t ELSE RemoveLeadingZeros(t))

\* from "Only preserve single 0 ..." to the end of handleValueChange
ClampAndEmit(c, rawValue, valueAsNumber) ==
  LET exempt == isSingleZero(rawValue) \/ endsWithDecimalPoint(rawValue, c.allowDecimal)
  IN IF exempt \/ ~ClampFires(valueAsNumber, c)
     THEN Run(rawValue, valueAsNumber,
              IF exempt THEN rawValue ELSE formatValue(valueAsNumber, c.separator),
              rawValue)
     ELSE With(Clamp(valueAsNumber, c), LAMBDA finalValue :
            Run(NumToString(finalValue), finalValue,
                formatValue(finalValue, c.separator), rawValue))

\* from "Convert to number" on, for a token that is neither empty nor "-"
InterpretToken(c, rawValue, valueAsNumber) ==
  IF valueAsNumber.nan \/ ~IsFinite(valueAsNumber)
    THEN Run(<<>>, NumOfInt(0), <<>>, rawValue)
  ELSE IF NumGreater(Abs(valueAsNumber), NumOfInt(MAX_SAFE_INTEGER))
    THEN With(Num(valueAsNumber.neg, MAX_SAFE_INTEGER, <<>>), LAMBDA clampedValue :
           Run(NumToString(clampedValue), clampedValue,
               formatValue(clampedValue, c.separator), rawValue))
  ELSE ClampAndEmit(c, rawValue, valueAsNumber)

\* handleValueChange answering the empty token with the zero it denotes
ProcessValueEmptyAsZero(c, inputValue) ==
  With(CanonicalToken(c, inputValue), LAMBDA rawValue :
    IF rawValue = <<>> THEN Run(<<"0">>, NumOfInt(0), <<"0">>, rawValue)
    ELSE IF rawValue = <<"-">>
      THEN IF c.allowNegative THEN Run(<<"-">>, NumOfInt(0), <<"-">>, rawValue)
           ELSE Run(<<>>, NumOfInt(0), <<>>, rawValue)
    ELSE With(ToNumber(rawValue), LAMBDA valueAsNumber :
           InterpretToken(c, rawValue, valueAsNumber)))

\* handleValueChange with the lone-minus branch always taking its else arm
ProcessValueMinusAsEmpty(c, inputValue) ==
  With(CanonicalToken(c, inputValue), LAMBDA rawValue :
    IF rawValue = <<>> THEN Run(<<>>, NumOfInt(0), <<>>, rawValue)
    ELSE IF rawValue = <<"-">>
      THEN Run(<<>>, NumOfInt(0), <<>>, rawValue)
    ELSE With(ToNumber(rawValue), LAMBDA valueAsNumber :
           InterpretToken(c, rawValue, valueAsNumber)))

\* handleValueChange(inputValue, true), and handleValueChange(inputValue)
\* when isComposing.current is false
ProcessValue(c, inputValue) ==
  With(CanonicalToken(c, inputValue), LAMBDA rawValue :
    IF rawValue = <<>> THEN Run(<<>>, NumOfInt(0), <<>>, rawValue)
    ELSE IF rawValue = <<"-">>
      THEN IF c.allowNegative THEN Run(<<"-">>, NumOfInt(0), <<"-">>, rawValue)
           ELSE Run(<<>>, NumOfInt(0), <<>>, rawValue)
    ELSE With(ToNumber(rawValue), LAMBDA valueAsNumber :
           InterpretToken(c, rawValue, valueAsNumber)))

(***************************************************************************)
(* use-numeric-input.ts: the resynchronization effect and displayValue     *)
(***************************************************************************)
Undefined == [kind |-> "undefined", s |-> <<>>, n |-> NaN]

StringValue(str) == [kind |-> "string", s |-> str, n |-> NaN]

NumberValue(x) == [kind |-> "number", s |-> <<>>, n |-> x]

\* the effect's isSingleZero without its isMinusSign test
ZeroPatternNoMinus(rawInputValue) ==
  \/ rawInputValue = <<"0">>
  \/ rawInputValue = <<"-", "0">>
  \/ StartsWith(rawInputValue, <<"0", ".">>)
  \/ StartsWith(rawInputValue, <<"-", "0", ".">>)

ZeroPattern(rawInputValue) ==
  \/ rawInputValue = <<"0">>
  \/ rawInputValue = <<"-", "0">>
  \/ isMinusSign(rawInputValue)
  \/ StartsWith(rawInputValue, <<"0", ".">>)
  \/ StartsWith(rawInputValue, <<"-", "0", ".">>)

\* the effect's branch for numValue === 0
ResyncZero(c, rawInputValue, rawAsNumber) ==
  IF /\ c.allowNegative /\ rawInputValue # <<>>
     /\ IsFinite(rawAsNumber) /\ NumLess(rawAsNumber, NumOfInt(0))
    THEN rawInputValue
  ELSE IF ~ZeroPattern(rawInputValue) THEN <<"0">>
  ELSE rawInputValue

\* the effect's branch for a non-zero numValue
ResyncNonZero(c, numValue, rawInputValue, convertedRawValue, rawAsNumber) ==
  IF rawInputValue = <<>> THEN rawInputValue
  ELSE IF c.allowNegative /\ isMinusSign(rawInputValue) THEN rawInputValue
  ELSE IF c.allowNegative /\ StartsWith(convertedRawValue, <<"-">>)
    THEN IF NumEq(rawAsNumber, numValue) THEN rawInputValue
         ELSE IF NumGreater(numValue, NumOfInt(0)) /\ NumEq(Abs(rawAsNumber), numValue)
           THEN <<>>
         ELSE rawInputValue
  ELSE IF ~NumEq(rawAsNumber, numValue) THEN <<>>
  ELSE rawInputValue

\* the effect leaving rawInputValue alone when the value prop is no number
ResyncRawKeepsToken(c, v, rawInputValue) ==
  With(parseValueProp(v, c.separator), LAMBDA numValue :
    IF numValue.nan
    THEN rawInputValue
    ELSE With(convertFullWidthToHalfWidth(rawInputValue), LAMBDA convertedRawValue :
           With(ToNumber(convertedRawValue), LAMBDA rawAsNumber :
             IF NumEq(numValue, NumOfInt(0))
             THEN ResyncZero(c, rawInputValue, rawAsNumber)
             ELSE ResyncNonZero(c, numValue, rawInputValue, convertedRawValue,
                                rawAsNumber))))

\* the useEffect body: the rawInputValue it leaves
ResyncRaw(c, v, rawInputValue) ==
  With(parseValueProp(v, c.separator), LAMBDA numValue :
    IF numValue.nan
    THEN IF c.allowNegative /\ isMinusSign(rawInputValue) THEN rawInputValue
         ELSE <<>>
    ELSE With(convertFullWidthToHalfWidth(rawInputValue), LAMBDA convertedRawValue :
           With(ToNumber(convertedRawValue), LAMBDA rawAsNumber :
             IF NumEq(numValue, NumOfInt(0))
             THEN ResyncZero(c, rawInputValue, rawAsNumber)
             ELSE ResyncNonZero(c, numValue, rawInputValue, convertedRawValue,
                                rawAsNumber))))

\* the useMemo body showing a numeric rawInputValue without formatting it
DisplayValueUnformatted(c, v, composingValue, rawInputValue) ==
  IF composingValue # <<>> THEN composingValue
  ELSE With(parseValueProp(v, c.separator), LAMBDA numValue :
    IF rawInputValue = <<>>
    THEN IF numValue.nan THEN <<>>
         ELSE IF NumEq(numValue, NumOfInt(0)) THEN <<"0">>
         ELSE formatValue(numValue, c.separator)
    ELSE normalizeMinusSign(rawInputValue))

\* the useMemo body
DisplayValue(c, v, composingValue, rawInputValue) ==
  IF composingValue # <<>> THEN composingValue
  ELSE With(parseValueProp(v, c.separator), LAMBDA numValue :
    IF rawInputValue = <<>>
    THEN IF numValue.nan THEN <<>>
         ELSE IF NumEq(numValue, NumOfInt(0)) THEN <<"0">>
         ELSE formatValue(numValue, c.separator)
    ELSE IF \/ isSingleZero(rawInputValue)
            \/ (c.allowNegative /\ isMinusSign(rawInputValue))
            \/ endsWithDecimalPoint(rawInputValue, c.allowDecimal)
      THEN normalizeMinusSign(rawInputValue)
    ELSE With(ToNumber(rawInputValue), LAMBDA rawAsNumber :
           IF ~rawAsNumber.nan /\ IsFinite(rawAsNumber)
             THEN formatValue(rawAsNumber, c.separator)
           ELSE IF numValue.nan THEN <<>>
           ELSE formatValue(numValue, c.separator)))

(***************************************************************************)
(* Bounds and the sets the events draw from                                *)
(***************************************************************************)
\* requestAnimationFrame callbacks queued and not yet run
MaxPending == 1

\* texts the host field reports to the session's handlers
Texts ==
  { <<>>, <<"0">>, <<"0", ".", "5">>, <<"5", ".", ".">>,
    <<"-", "1", "2", "3", "4", ".", "5">>, <<"F-">> }

\* values the parent passes as the value prop besides the echoed formattedValue
ExternalValues ==
  { Undefined, NumberValue(NumOfInt(0)), NumberValue(NumOfInt(5)) }

Config(dec, negv, sep, minv, maxv, places, len, echo) ==
  [ allowDecimal |-> dec, allowNegative |-> negv, separator |-> sep,
    minValue |-> minv, maxValue |-> maxv,
    maxDecimalPlaces |-> places, maxLength |-> len, echo |-> echo ]

Half == Num(FALSE, 0, <<"5">>)

NegHalf == Num(TRUE, 0, <<"5">>)

\* options off the beaten path: a separator that is itself "." or "-",
\* bounds that are negative and fractional, and minValue above maxValue
SpecialConfigs ==
  { Config(FALSE, FALSE, <<".">>, None, None, None, None, FALSE),
    Config(TRUE, TRUE, <<".">>, None, None, None, None, FALSE),
    Config(FALSE, FALSE, <<"-">>, None, None, None, None, FALSE),
    Config(FALSE, FALSE, <<",">>, Some(NumOfInt(-5)), Some(NegHalf), None, None, FALSE),
    Config(TRUE, FALSE, <<",">>, Some(NumOfInt(10)), Some(NumOfInt(1)), None, None, TRUE) }

\* echo: the parent is the README's controlled parent, which stores every
\* result and passes its formattedValue back as the value prop
Configs ==
  { Config(dec, negv, sep, b[1], b[2], None, None, echo) :
      dec \in BOOLEAN, negv \in BOOLEAN, sep \in {<<",">>},
      b \in { <<None, None>>,
              <<Some(NumOfInt(1)), Some(NumOfInt(10))>> },
      echo \in BOOLEAN }
  \cup SpecialConfigs

(***************************************************************************)
(* The session                                                             *)
(***************************************************************************)
VARIABLES
  cfg,                      \* the options, fixed for the session
  value,                    \* the value prop
  isComposing,              \* isComposing.current
  hasProcessedComposition,  \* hasProcessedComposition.current
  composingValue,           \* useState
  rawInputValue,            \* useState
  pendingFrames,            \* final texts of the queued requestAnimationFrame callbacks
  effectPending,            \* the effect's dependencies changed since it last ran
  out,                      \* the onValueChange calls of the last handler, in order
  last,                     \* the most recent onValueChange argument
  ev                        \* the last handler: its kind and the text it was given

vars ==
  << cfg, value, isComposing, hasProcessedComposition, composingValue, rawInputValue,
     pendingFrames, effectPending, out, last, ev >>

NoEmission == Emission(NaN, <<>>)

Event(kind, text) == [kind |-> kind, text |-> text]

Init ==
  /\ cfg \in Configs
  /\ value = IF cfg.echo THEN StringValue(<<>>) ELSE Undefined
  /\ isComposing = FALSE
  /\ hasProcessedComposition = FALSE
  /\ composingValue = <<>>
  /\ rawInputValue = <<>>
  /\ pendingFrames = <<>>
  /\ effectPending = TRUE
  /\ out = <<>>
  /\ last = NoEmission
  /\ ev = Event("mount", <<>>)

\* the state updates a handler leaves behind: the new rawInputValue, its calls
\* of onValueChange, and the re-render's consequences (the echoing parent's
\* new value prop, the effect scheduled when a dependency changed)
Commit(raw, calls) ==
  /\ rawInputValue' = raw
  /\ out' = calls
  /\ last' = IF calls = <<>> THEN last ELSE calls[Len(calls)]
  /\ \E v \in {IF cfg.echo /\ calls # <<>>
                THEN StringValue(calls[Len(calls)].formattedValue)
                ELSE value} :
       /\ value' = v
       /\ effectPending' = (raw # rawInputValue \/ v # value)

\* handlers run between renders with the effect of the last render flushed
Ready == ~effectPending

\* numeric-input.tsx onChange while hasProcessedComposition.current is set
TextChangedSuppressed(t) ==
  /\ Ready /\ hasProcessedComposition
  /\ ev' = Event("changeSuppressed", t)
  /\ Commit(rawInputValue, <<>>)
  /\ UNCHANGED <<cfg, isComposing, hasProcessedComposition, composingValue, pendingFrames>>

\* the composing branch emitting the glyph-converted text
TextChangedComposingConverted(t) ==
  /\ Ready /\ ~hasProcessedComposition /\ isComposing
  /\ composingValue' = t
  /\ ev' = Event("changeComposing", t)
  /\ Commit(t, <<Emission(NumOfInt(0), convertFullWidthToHalfWidth(t))>>)
  /\ UNCHANGED <<cfg, isComposing, hasProcessedComposition, pendingFrames>>

\* handleValueChange(t) while isComposing.current
TextChangedComposing(t) ==
  /\ Ready /\ ~hasProcessedComposition /\ isComposing
  /\ composingValue' = t
  /\ ev' = Event("changeComposing", t)
  /\ Commit(t, <<Emission(NumOfInt(0), t)>>)
  /\ UNCHANGED <<cfg, isComposing, hasProcessedComposition, pendingFrames>>

\* the pipeline whose empty-input branch returns without calling onValueChange
TextChangedIdleSilentOnEmpty(t) ==
  /\ Ready /\ ~hasProcessedComposition /\ ~isComposing
  /\ ev' = Event("changeIdle", t)
  /\ \E r \in {ProcessValue(cfg, t)} :
       Commit(r.rawInputValue, IF r.rawInputValue = <<>> THEN <<>> ELSE <<r.em>>)
  /\ UNCHANGED <<cfg, isComposing, hasProcessedComposition, composingValue, pendingFrames>>

\* handleValueChange(t) otherwise
TextChangedIdle(t) ==
  /\ Ready /\ ~hasProcessedComposition /\ ~isComposing
  /\ ev' = Event("changeIdle", t)
  /\ \E r \in {ProcessValue(cfg, t)} : Commit(r.rawInputValue, <<r.em>>)
  /\ UNCHANGED <<cfg, isComposing, hasProcessedComposition, composingValue, pendingFrames>>

\* handleCompositionStart without hasProcessedComposition.current = false
handleCompositionStartKeepsFlag(t) ==
  /\ Ready
  /\ isComposing' = TRUE
  /\ composingValue' = t
  /\ ev' = Event("compositionStart", t)
  /\ Commit(rawInputValue, <<>>)
  /\ UNCHANGED <<cfg, hasProcessedComposition, pendingFrames>>

handleCompositionStart(t) ==
  /\ Ready
  /\ isComposing' = TRUE
  /\ hasProcessedComposition' = FALSE
  /\ composingValue' = t
  /\ ev' = Event("compositionStart", t)
  /\ Commit(rawInputValue, <<>>)
  /\ UNCHANGED <<cfg, pendingFrames>>

\* the host reports the end of a composition it has started
handleCompositionEnd(t) ==
  /\ Ready /\ isComposing /\ Len(pendingFrames) < MaxPending
  /\ isComposing' = FALSE
  /\ composingValue' = <<>>
  /\ hasProcessedComposition' = TRUE
  /\ pendingFrames' = Append(pendingFrames, t)
  /\ ev' = Event("compositionEnd", t)
  /\ Commit(rawInputValue, <<>>)
  /\ UNCHANGED cfg

processConvertedValue(c, convertedValue) ==
  IF c.allowNegative /\ convertedValue = <<"-">>
  THEN Run(<<"-">>, NumOfInt(0), <<"-">>, <<"-">>)
  ELSE ProcessValue(c, convertedValue)

\* the callback without its last statement, hasProcessedComposition.current = false
DeferredRunKeepsFlag ==
  /\ Ready /\ pendingFrames # <<>>
  /\ \E finalValue \in {Head(pendingFrames)} :
       \E r \in {processConvertedValue(cfg, convertFullWidthToHalfWidth(finalValue))} :
         /\ ev' = Event("deferredRun", finalValue)
         /\ Commit(r.rawInputValue, <<r.em>>)
  /\ pendingFrames' = Tail(pendingFrames)
  /\ UNCHANGED <<cfg, isComposing, hasProcessedComposition, composingValue>>

\* the requestAnimationFrame callback of handleCompositionEnd
DeferredRun ==
  /\ Ready /\ pendingFrames # <<>>
  /\ \E finalValue \in {Head(pendingFrames)} :
       \E r \in {processConvertedValue(cfg, convertFullWidthToHalfWidth(finalValue))} :
         /\ ev' = Event("deferredRun", finalValue)
         /\ Commit(r.rawInputValue, <<r.em>>)
  /\ hasProcessedComposition' = FALSE
  /\ pendingFrames' = Tail(pendingFrames)
  /\ UNCHANGED <<cfg, isComposing, composingValue>>

\* which of handleBlur's composition branches runs
BlurBranch(t) ==
  IF isComposing THEN "blurComposing"
  ELSE IF composingValue # <<>> THEN "blurResidual"
  ELSE IF ~hasProcessedComposition /\ t # <<>> THEN "blurIdle"
  ELSE "blurNone"

\* the run of that branch, as a sequence of at most one run
BlurRuns(c, branch, t, composing) ==
  IF branch = "blurComposing"
    THEN <<processConvertedValue(c, convertFullWidthToHalfWidth(t))>>
  ELSE IF branch = "blurResidual"
    THEN <<processConvertedValue(c, convertFullWidthToHalfWidth(composing))>>
  ELSE IF branch = "blurIdle"
    THEN <<ProcessValue(c, convertFullWidthToHalfWidth(t))>>
  ELSE <<>>

\* "Apply min/max validation on blur": reads the rawInputValue of the render
\* the handler was created in
BlurClampRuns(c, raw) ==
  IF raw = <<>> \/ (c.allowNegative /\ isMinusSign(raw)) THEN <<>>
  ELSE With(ToNumber(convertFullWidthToHalfWidth(raw)), LAMBDA numValue :
         IF ~numValue.nan /\ IsFinite(numValue) /\ ClampFires(numValue, c)
         THEN With(Clamp(numValue, c), LAMBDA clampedValue :
                <<Run(NumToString(clampedValue), clampedValue,
                      formatValue(clampedValue, c.separator), raw)>>)
         ELSE <<>>)

\* the normalization testing currentValue !== '-' in place of rawInputValue !== '-'
BlurMinusRunsOnFieldText(c, raw, t) ==
  LET shouldPreserveMinus == c.allowNegative /\ (isMinusSign(raw) \/ isMinusSign(t))
  IN IF shouldPreserveMinus /\ isMinusSign(raw) /\ t # <<"-">>
     THEN <<Run(<<"-">>, NumOfInt(0), <<"-">>, raw)>>
     ELSE <<>>

\* "Normalize minus sign to half-width if needed"
BlurMinusRuns(c, raw, t) ==
  LET shouldPreserveMinus == c.allowNegative /\ (isMinusSign(raw) \/ isMinusSign(t))
  IN IF shouldPreserveMinus /\ isMinusSign(raw) /\ raw # <<"-">>
     THEN <<Run(<<"-">>, NumOfInt(0), <<"-">>, raw)>>
     ELSE <<>>

\* handleBlur without its closing hasProcessedComposition.current = false
handleBlurKeepsFlag(t) ==
  /\ Ready
  /\ \E branch \in {BlurBranch(t)} :
     \E runs \in {BlurRuns(cfg, branch, t, composingValue)
                     \o BlurClampRuns(cfg, rawInputValue)
                     \o BlurMinusRuns(cfg, rawInputValue, t)} :
        /\ ev' = Event(branch, t)
        /\ Commit(IF runs = <<>> THEN rawInputValue ELSE runs[Len(runs)].rawInputValue,
                  [i \in 1..Len(runs) |-> runs[i].em])
        /\ composingValue' = IF branch \in {"blurComposing", "blurResidual"} THEN <<>>
                             ELSE composingValue
        /\ hasProcessedComposition' = (branch = "blurComposing" \/ hasProcessedComposition)
  /\ isComposing' = FALSE
  /\ UNCHANGED <<cfg, pendingFrames>>

handleBlur(t) ==
  /\ Ready
  /\ \E branch \in {BlurBranch(t)} :
     \E runs \in {BlurRuns(cfg, branch, t, composingValue)
                     \o BlurClampRuns(cfg, rawInputValue)
                     \o BlurMinusRuns(cfg, rawInputValue, t)} :
        /\ ev' = Event(branch, t)
        /\ Commit(IF runs = <<>> THEN rawInputValue ELSE runs[Len(runs)].rawInputValue,
                  [i \in 1..Len(runs) |-> runs[i].em])
        /\ composingValue' = IF branch \in {"blurComposing", "blurResidual"} THEN <<>>
                             ELSE composingValue
  /\ isComposing' = FALSE
  /\ hasProcessedComposition' = FALSE
  /\ UNCHANGED <<cfg, pendingFrames>>

\* the parent re-renders the input with another value prop
SetValue(v) ==
  /\ Ready /\ ~cfg.echo /\ v # value
  /\ value' = v
  /\ effectPending' = TRUE
  /\ out' = <<>>
  /\ ev' = Event("setValue", <<>>)
  /\ UNCHANGED <<cfg, isComposing, hasProcessedComposition, composingValue, rawInputValue,
                 pendingFrames, last>>

\* the useEffect on [value, separator, rawInputValue, allowNegative]
Resync ==
  /\ effectPending
  /\ \E raw \in {ResyncRaw(cfg, value, rawInputValue)} :
       /\ rawInputValue' = raw
       /\ effectPending' = (raw # rawInputValue)
  /\ out' = <<>>
  /\ ev' = Event("resync", <<>>)
  /\ UNCHANGED <<cfg, value, isComposing, hasProcessedComposition, composingValue,
                 pendingFrames, last>>

\* numeric-input.tsx renders <input value={displayValue}>: the text the field
\* holds when an event other than an edit reaches it (e.target.value,
\* e.currentTarget.value)
FieldText == DisplayValue(cfg, value, composingValue, rawInputValue)

Next ==
  \/ \E t \in Texts : TextChangedSuppressed(t)
  \/ \E t \in Texts : TextChangedComposing(t)
  \/ \E t \in Texts : TextChangedIdle(t)
  \/ \E t \in {FieldText} : handleCompositionStart(t)
  \/ \E t \in {FieldText} : handleCompositionEnd(t)
  \/ DeferredRun
  \/ \E t \in {FieldText} : handleBlur(t)
  \/ \E v \in ExternalValues : SetValue(v)
  \/ Resync

Spec == Init /\ [][Next]_vars

\* the effect is flushed by React after every render that changed one of its
\* dependencies, and the browser runs a queued animation-frame callback at its
\* next frame, whatever renders happen in between
FairSpec == Spec /\ SF_vars(DeferredRun) /\ WF_vars(Resync)

(***************************************************************************)
(* The session around the lone minus: the same handlers, with negatives    *)
(* allowed, the four minus glyphs among the texts and bounds on either     *)
(* side of zero.                                                           *)
(***************************************************************************)
MinusTexts ==
  { <<>>, <<"-">>, <<"F-">>, <<"K-">>, <<"M-">>, <<"5">>, <<"-", "5">> }

MinusConfigs ==
  { Config(dec, TRUE, <<",">>, b[1], b[2], None, None, echo) :
      dec \in BOOLEAN,
      b \in { <<None, None>>,
              <<Some(NumOfInt(1)), Some(NumOfInt(10))>>,
              <<Some(NumOfInt(-5)), Some(NegHalf)>> },
      echo \in BOOLEAN }

MinusInit ==
  /\ cfg \in MinusConfigs
  /\ value = IF cfg.echo THEN StringValue(<<>>) ELSE Undefined
  /\ isComposing = FALSE
  /\ hasProcessedComposition = FALSE
  /\ composingValue = <<>>
  /\ rawInputValue = <<>>
  /\ pendingFrames = <<>>
  /\ effectPending = TRUE
  /\ out = <<>>
  /\ last = NoEmission
  /\ ev = Event("mount", <<>>)

MinusNext ==
  \/ \E t \in MinusTexts : TextChangedSuppressed(t)
  \/ \E t \in MinusTexts : TextChangedComposing(t)
  \/ \E t \in MinusTexts : TextChangedIdle(t)
  \/ \E t \in {FieldText} : handleCompositionStart(t)
  \/ \E t \in {FieldText} : handleCompositionEnd(t)
  \/ DeferredRun
  \/ \E t \in {FieldText} : handleBlur(t)
  \/ \E v \in ExternalValues : SetValue(v)
  \/ Resync

MinusSpec == MinusInit /\ [][MinusNext]_vars

(***************************************************************************)
(* The pipeline alone: one text-changed event on a fresh idle session,     *)
(* for every text up to MaxTextLen characters and a wider set of options,  *)
(* then a second text-changed event carrying the formattedValue the first  *)
(* one emitted.                                                            *)
(***************************************************************************)
MaxTextLen == 3

PipeAlphabet == {"0", "1", "5", ".", "-", "F2", "e"}

LongTexts ==
  { <<"1", "2", "3", "4">>, <<"1", "2", "3", "4", ".", "5">>, <<"-", "1", "2", "3", "4">>,
    <<"1", "2", "3", "4", "5">>, <<"-", "9", "9", "9", "9", ".", "5">>,
    <<"0", ".", "5", "0">>, <<"0", "0", "1", "2", "3">>,
    <<"1", "2", "3", "4", "5", ".">>,
    <<"1", "2", "3", "4", "5", "6", "7", "8", "9">> }

\* texts in full-width glyphs
GlyphTexts ==
  { <<"F-", "F1", "F2", "F.", "F5">>, <<"K-", "F5">>, <<"M-", "1", ".", "F5">>,
    <<"F1", "F,", "F2", "F3", "F4">>, <<"F,">> }

PipeTexts ==
  UNION {[1..k -> PipeAlphabet] : k \in 0..MaxTextLen} \cup LongTexts \cup GlyphTexts

\* bounds of seven and six digits, which the clamp hands to formatValue
BigBound == Num(FALSE, 1234567, <<"2", "5">>)

NegBigBound == Num(TRUE, 123456, <<>>)

\* maxDecimalPlaces = 0 next to a bound with a fractional digit, maxLength = 0,
\* bounds beyond the texts' reach, maxDecimalPlaces with decimals disallowed,
\* and maxLength = 1
SpecialPipeConfigs ==
  { Config(TRUE, negv, <<",">>, Some(NumOfInt(-5)), Some(Half), Some(0), None, FALSE) :
      negv \in BOOLEAN }
  \cup { Config(dec, negv, <<",">>, None, None, None, Some(0), FALSE) :
           dec \in BOOLEAN, negv \in BOOLEAN }
  \cup { Config(TRUE, TRUE, sep, b[1], b[2], None, None, FALSE) :
           sep \in {<<>>, <<",">>, <<".">>},
           b \in { <<Some(BigBound), None>>, <<None, Some(NegBigBound)>> } }
  \cup { Config(FALSE, TRUE, <<",">>, b[1], b[2], Some(1), None, FALSE) :
           b \in { <<None, None>>, <<Some(NumOfInt(-5)), Some(Half)>> } }
  \cup { Config(TRUE, negv, <<",">>, None, None, None, Some(1), FALSE) :
           negv \in BOOLEAN }

\* maxDecimalPlaces is read only when allowDecimal is set (line 128): with
\* decimals disallowed it is left out, but for the configurations of
\* SpecialPipeConfigs that show it ignored. maxLength acts on the token
\* before formatValue reads the separator: it comes with the separators ","
\* and none, and next to maxDecimalPlaces with the separator "," only
PipeConfigs ==
  { c \in { Config(dec, negv, sep, b[1], b[2], places, len, FALSE) :
              dec \in BOOLEAN, negv \in BOOLEAN, sep \in {<<>>, <<",">>, <<".">>},
              b \in { <<None, None>>,
                      <<Some(NumOfInt(1)), Some(NumOfInt(10))>>,
                      <<Some(NumOfInt(-5)), Some(Half)>> },
              places \in {None, Some(1)},
              len \in {None, Some(2)} } :
      /\ c.allowDecimal \/ ~c.maxDecimalPlaces.def
      /\ c.separator = <<".">> => ~c.maxLength.def
      /\ c.separator = <<>> => ~(c.maxDecimalPlaces.def /\ c.maxLength.def) }
  \cup SpecialPipeConfigs

PipeInit ==
  /\ cfg \in PipeConfigs
  /\ value = Undefined
  /\ isComposing = FALSE
  /\ hasProcessedComposition = FALSE
  /\ composingValue = <<>>
  /\ rawInputValue = <<>>
  /\ pendingFrames = <<>>
  /\ effectPending = FALSE
  /\ out = <<>>
  /\ last = NoEmission
  /\ ev \in {Event("input", t) : t \in PipeTexts}

\* the text-changed event the initial state holds
PipeRun == ev.kind = "input" /\ TextChangedIdle(ev.text)

\* handleValueChange on the formattedValue just emitted (it reads the options
\* and the two refs only, so the pending effect does not matter to it)
PipeRerun ==
  /\ ev.kind = "changeIdle"
  /\ \E r \in {ProcessValue(cfg, last.formattedValue)} :
       /\ ev' = Event("rerun", last.formattedValue)
       /\ Commit(r.rawInputValue, <<r.em>>)
  /\ UNCHANGED <<cfg, isComposing, hasProcessedComposition, composingValue, pendingFrames>>

PipeNext == PipeRun \/ PipeRerun

PipeSpec == PipeInit /\ [][PipeNext]_vars

(***************************************************************************)
(* Typing in a controlled field: the parent echoes formattedValue as the   *)
(* value prop, and every text-changed event carries the displayed text     *)
(* with one more digit                                                     *)
(***************************************************************************)
MaxTyped == 3

TypingDigits == {"0", "1", "2", "5"}

TypingConfigs ==
  { Config(FALSE, FALSE, sep, Some(NumOfInt(b[1])), Some(NumOfInt(b[2])), None, None, TRUE) :
      sep \in {<<>>, <<",">>},
      b \in { <<0, 10>>, <<2, 15>>, <<0, 100>> } }

TypingInit ==
  /\ cfg \in TypingConfigs
  /\ value = StringValue(<<>>)
  /\ isComposing = FALSE
  /\ hasProcessedComposition = FALSE
  /\ composingValue = <<>>
  /\ rawInputValue = <<>>
  /\ pendingFrames = <<>>
  /\ effectPending = TRUE
  /\ out = <<>>
  /\ last = NoEmission
  /\ ev = Event("mount", <<>>)

TypeDigit(d) ==
  /\ Len(FieldText) < MaxTyped
  /\ TextChangedIdle(FieldText \o <<d>>)

TypingNext ==
  \/ \E d \in TypingDigits : TypeDigit(d)
  \/ \E t \in {FieldText} : handleBlur(t)
  \/ Resync

TypingSpec == TypingInit /\ [][TypingNext]_vars

(***************************************************************************)
(* Vocabulary of the properties                                            *)
(***************************************************************************)
\* the handlers whose first call of onValueChange is a full-pipeline run on
\* the text they were given
PipelineKinds == {"changeIdle", "deferredRun", "blurComposing", "blurIdle", "rerun"}

BlurKinds == {"blurComposing", "blurResidual", "blurIdle", "blurNone"}

\* the canonical token of the last handler's pipeline run
Token == CanonicalToken(cfg, ev.text)

EndsInPoint(t) == EndsWith(t, <<".">>)

BothBoundsOrdered ==
  cfg.minValue.def /\ cfg.maxValue.def /\ ~NumGreater(cfg.minValue.v, cfg.maxValue.v)

WithinBounds(x) ==
  /\ ~x.nan
  /\ (cfg.minValue.def => ~NumLess(x, cfg.minValue.v))
  /\ (cfg.maxValue.def => ~NumGreater(x, cfg.maxValue.v))

WithinCeiling(t) == ~NumGreater(Abs(ToNumber(t)), NumOfInt(MAX_SAFE_INTEGER))

NoOutputHas(ch) == \A i \in 1..Len(out) : ~Includes(out[i].formattedValue, ch)

IsWhole(x) == x.fd = <<>>

(***************************************************************************)
(* C1  Clamp invariant: a full-pipeline run whose canonical token is       *)
(* complete (not empty, not the lone minus, not "0" or "-0", not ending in *)
(* ".") and within the safe-integer ceiling emits a value v with           *)
(* minValue <= v <= maxValue, when both bounds are defined and ordered.    *)
(***************************************************************************)
C1_ClampInvariant ==
  ( /\ ev.kind \in PipelineKinds
    /\ BothBoundsOrdered
    /\ Token \notin {<<>>, <<"-">>, <<"0">>, <<"-", "0">>}
    /\ ~EndsInPoint(Token)
    /\ WithinCeiling(Token) )
  => WithinBounds(out[1].value)

(***************************************************************************)
(* C2  When a blur has been handled (minValue <= maxValue), the most       *)
(* recently emitted result has formattedValue "" or "-", or a value within *)
(* the bounds that are defined.                                            *)
(***************************************************************************)
C2_BlurLeavesValueInRange ==
  ( /\ ev.kind \in BlurKinds
    /\ (BothBoundsOrdered \/ ~cfg.minValue.def \/ ~cfg.maxValue.def)
    /\ last # NoEmission )
  => \/ last.formattedValue \in {<<>>, <<"-">>}
     \/ WithinBounds(last.value)

(***************************************************************************)
(* C3  Sign invariant.  As stated: with allowNegative false no emitted     *)
(* formattedValue contains "-".                                            *)
(***************************************************************************)
C3_Original == ~cfg.allowNegative => NoOutputHas("-")

\* C3 as amended: with allowNegative false, a separator without "-" and no
\* negative bound, no formattedValue contains "-" unless it is the verbatim
\* echo of a text-changed event received while composing.
C3_SignInvariant ==
  ( /\ ~cfg.allowNegative
    /\ ~Includes(cfg.separator, "-")
    /\ (cfg.minValue.def => ~NumLess(cfg.minValue.v, NumOfInt(0)))
    /\ (cfg.maxValue.def => ~NumLess(cfg.maxValue.v, NumOfInt(0)))
    /\ ev.kind # "changeComposing" )
  => NoOutputHas("-")

C3_Witness ==
  /\ ~cfg.allowNegative
  /\ ev.kind \in {"changeIdle", "deferredRun", "blurComposing", "blurIdle"}
  /\ Includes(convertFullWidthToHalfWidth(ev.text), "-")
  /\ out # <<>>

(***************************************************************************)
(* C4  Decimal invariant.  As stated: with allowDecimal false no emitted   *)
(* formattedValue contains ".".                                            *)
(***************************************************************************)
C4_Original == ~cfg.allowDecimal => NoOutputHas(".")

\* C4 as amended: with allowDecimal false, a separator without "." and
\* whole-number bounds, no formattedValue contains "." unless it is the
\* verbatim echo of a text-changed event received while composing.
C4_DecimalInvariant ==
  ( /\ ~cfg.allowDecimal
    /\ ~Includes(cfg.separator, ".")
    /\ (cfg.minValue.def => IsWhole(cfg.minValue.v))
    /\ (cfg.maxValue.def => IsWhole(cfg.maxValue.v))
    /\ ev.kind # "changeComposing" )
  => NoOutputHas(".")

C4_Witness ==
  /\ ~cfg.allowDecimal
  /\ ev.kind \in {"changeIdle", "deferredRun", "blurComposing", "blurIdle"}
  /\ Includes(ev.text, ".")
  /\ out # <<>>
  /\ out[1].formattedValue # <<>>

(***************************************************************************)
(* C5  Single decimal point.  As stated: every emitted formattedValue      *)
(* contains at most one ".".                                               *)
(***************************************************************************)
AtMostOnePoint == \A i \in 1..Len(out) : Count(out[i].formattedValue, ".") <= 1

C5_Original == AtMostOnePoint

\* C5 as amended: with a separator without ".", every formattedValue has at
\* most one "." unless it is the verbatim echo of a text-changed event
\* received while composing.
C5_SinglePoint ==
  (~Includes(cfg.separator, ".") /\ ev.kind # "changeComposing") => AtMostOnePoint

C5_Witness ==
  /\ cfg.allowDecimal
  /\ ev.kind \in {"changeIdle", "deferredRun", "blurComposing", "blurIdle"}
  /\ Count(ev.text, ".") > 1
  /\ Count(out[1].formattedValue, ".") = 1

(***************************************************************************)
(* C6  As stated: the formattedValue of a full-pipeline run is the         *)
(* Formatter's rendering of the emitted value, except that it is the       *)
(* literal canonical token when that token is the lone minus (negatives    *)
(* allowed), exactly "0" or "-0", or ends in "." (decimals allowed).       *)
(***************************************************************************)
C6_Original ==
  ev.kind \in PipelineKinds =>
    IF \/ (cfg.allowNegative /\ Token = <<"-">>)
       \/ Token \in {<<"0">>, <<"-", "0">>}
       \/ (cfg.allowDecimal /\ EndsInPoint(Token))
    THEN out[1].formattedValue = Token
    ELSE out[1].formattedValue = formatValue(out[1].value, cfg.separator)

IsZeroIdiom(t) ==
  \/ t \in {<<"0">>, <<"-", "0">>}
  \/ StartsWith(t, <<"0", ".">>)
  \/ StartsWith(t, <<"-", "0", ".">>)

\* C6 as amended: a full-pipeline run emits {0, "-"} for the lone minus and
\* {0, ""} for any other canonical token that is empty or no finite number; for a
\* token within the safe-integer ceiling that is "0" or "-0", begins "0." or
\* "-0.", or ends in ".", formattedValue is the literal token; in every other
\* case formattedValue is the Formatter's rendering of the emitted value.
C6_FormattedValue ==
  ev.kind \in PipelineKinds =>
    IF Token = <<>> \/ ~IsFinite(ToNumber(Token))
      THEN out[1] = Emission(NumOfInt(0), IF Token = <<"-">> THEN Token ELSE <<>>)
    ELSE IF WithinCeiling(Token) /\ (IsZeroIdiom(Token) \/ EndsInPoint(Token))
      THEN out[1].formattedValue = Token
    ELSE out[1].formattedValue = formatValue(out[1].value, cfg.separator)

C6_Witness ==
  /\ ev.kind = "changeIdle"
  /\ Token = <<"0", ".", "5", "0">>
  /\ out = <<Emission(Half, <<"0", ".", "5", "0">>)>>
  /\ formatValue(Half, cfg.separator) = <<"0", ".", "5">>

(***************************************************************************)
(* C7  Idempotence: when a text-changed event in Idle had a canonical      *)
(* token that is complete and no preserved idiom (not empty, not the lone  *)
(* minus, not "0" or "-0", not ending in "."), a text-changed event        *)
(* carrying the formattedValue it emitted emits the same value and the     *)
(* same formattedValue.                                                    *)
(***************************************************************************)
C7_Idempotence ==
  [][ ( /\ ev.kind = "changeIdle"
        /\ ev'.kind = "rerun"
        /\ Token \notin {<<>>, <<"-">>, <<"0">>, <<"-", "0">>}
        /\ ~EndsInPoint(Token) )
      => out' = out ]_vars

(***************************************************************************)
(* C8  External override wins: once the resynchronization has run for a    *)
(* numeric value prop, a rawInputValue that is none of the preserved       *)
(* idioms (lone minus, "0" or "-0", trailing point) and does not denote    *)
(* that number has been cleared, and the field shows the formatted value   *)
(* prop.                                                                   *)
(***************************************************************************)
PreservedIdiom(t) ==
  isMinusSign(t) \/ t \in {<<"0">>, <<"-", "0">>} \/ EndsInPoint(t)

C8_ExternalOverrideWins ==
  \A numValue \in {parseValueProp(value, cfg.separator)} :
    ( /\ ev.kind = "resync"
      /\ ~effectPending
      /\ composingValue = <<>>
      /\ ~numValue.nan
      /\ ~PreservedIdiom(rawInputValue)
      /\ ~NumEq(ToNumber(convertFullWidthToHalfWidth(rawInputValue)), numValue) )
    => /\ rawInputValue = <<>>
       /\ FieldText = formatValue(numValue, cfg.separator)

(***************************************************************************)
(* C9  A text-changed event received while composing stores the text       *)
(* verbatim in composingValue and rawInputValue, emits exactly one result  *)
(* {value: 0, formattedValue: text} and leaves isComposing true.           *)
(***************************************************************************)
C9_ComposingEcho ==
  ev.kind = "changeComposing" =>
    /\ composingValue = ev.text
    /\ rawInputValue = ev.text
    /\ out = <<Emission(NumOfInt(0), ev.text)>>
    /\ isComposing

\* a composing event whose text the pipeline would have changed: a full-width
\* minus with negatives disallowed and bounds that exclude 0
C9_Witness ==
  /\ ev = Event("changeComposing", <<"F-">>)
  /\ ~cfg.allowNegative
  /\ cfg.minValue = Some(NumOfInt(1))
  /\ out = <<Emission(NumOfInt(0), <<"F-">>)>>
  /\ rawInputValue = <<"F-">>
  /\ ProcessValue(cfg, ev.text).em = Emission(NumOfInt(0), <<>>)

(***************************************************************************)
(* C10  A composition-end event with final text T leaves the composing     *)
(* state, clears composingValue, emits nothing and queues T; frames leave  *)
(* the queue only from its head, by the deferred run, which emits the      *)
(* full-pipeline result of the glyph-normalized T ({0, "-"} for the lone   *)
(* minus with negatives allowed) and resets hasProcessedComposition; and   *)
(* under fair scheduling a queued frame leads to a deferred run.           *)
(***************************************************************************)
C10_CompositionEnd ==
  /\ [](ev.kind = "compositionEnd" =>
          /\ ~isComposing
          /\ composingValue = <<>>
          /\ out = <<>>
          /\ hasProcessedComposition
          /\ pendingFrames # <<>>
          /\ pendingFrames[Len(pendingFrames)] = ev.text)
  /\ [][ pendingFrames' # pendingFrames =>
           \/ /\ ev'.kind = "compositionEnd"
              /\ pendingFrames' = Append(pendingFrames, ev'.text)
           \/ /\ ev'.kind = "deferredRun"
              /\ pendingFrames # <<>>
              /\ pendingFrames' = Tail(pendingFrames)
              /\ ev'.text = Head(pendingFrames) ]_vars
  /\ [](ev.kind = "deferredRun" =>
          /\ out = <<ProcessValue(cfg, convertFullWidthToHalfWidth(ev.text)).em>>
          /\ (cfg.allowNegative /\ isMinusSign(ev.text)
                => out = <<Emission(NumOfInt(0), <<"-">>)>>)
          /\ ~hasProcessedComposition)
  /\ (pendingFrames # <<>>) ~> (ev.kind = "deferredRun")

C10_Witness ==
  /\ ev = Event("deferredRun", <<"F-">>)
  /\ cfg.allowNegative
  /\ out = <<Emission(NumOfInt(0), <<"-">>)>>
  /\ ~hasProcessedComposition
  /\ pendingFrames = <<>>

(***************************************************************************)
(* C11  A blur received while composing runs the full pipeline within the  *)
(* handler, over the glyph-normalized text the field holds: its first      *)
(* result is that run's, nothing is queued for a later frame, and when the *)
(* handler returns isComposing is false, composingValue is empty and       *)
(* hasProcessedComposition is false.                                       *)
(***************************************************************************)
C11_BlurWhileComposing ==
  [][ ev'.kind = "blurComposing" =>
        /\ isComposing
        /\ ev'.text = FieldText
        /\ out' # <<>>
        /\ out'[1] = ProcessValue(cfg, convertFullWidthToHalfWidth(ev'.text)).em
        /\ pendingFrames' = pendingFrames
        /\ ~isComposing'
        /\ composingValue' = <<>>
        /\ ~hasProcessedComposition' ]_vars

\* the test's case: a full-width minus typed during composition, then blur
C11_Witness ==
  /\ ev = Event("blurComposing", <<"F-">>)
  /\ cfg.allowNegative
  /\ out # <<>>
  /\ out[1] = Emission(NumOfInt(0), <<"-">>)
  /\ ~isComposing
  /\ composingValue = <<>>
  /\ ~hasProcessedComposition

(***************************************************************************)
(* C12  Lone minus: a full-pipeline run whose sanitized token is "-" emits *)
(* {value: 0, formattedValue: "-"} and leaves rawInputValue "-" when       *)
(* negatives are allowed, and emits {value: 0, formattedValue: ""} and     *)
(* leaves rawInputValue empty when they are not; with negatives disallowed *)
(* the sanitizer has already removed the sign, so a text that is a lone    *)
(* minus but for that removal is the empty input.                          *)
(***************************************************************************)
C12_LoneMinus ==
  ev.kind \in {"changeIdle", "rerun"} =>
    /\ ( SanitizedToken(cfg, ev.text) = <<"-">> /\ cfg.allowNegative
           => /\ out = <<Emission(NumOfInt(0), <<"-">>)>>
              /\ rawInputValue = <<"-">> )
    /\ ( SanitizedToken(cfg, ev.text) = <<"-">> /\ ~cfg.allowNegative
           => /\ out = <<Emission(NumOfInt(0), <<>>)>>
              /\ rawInputValue = <<>> )
    /\ ( SanitizedTokenAnySign(cfg, ev.text) = <<"-">> /\ ~cfg.allowNegative
           => /\ SanitizedToken(cfg, ev.text) = <<>>
              /\ out = <<Emission(NumOfInt(0), <<>>)>>
              /\ rawInputValue = <<>> )

\* a minus among characters the sanitizer drops, negatives allowed
C12_Witness ==
  /\ ev = Event("changeIdle", <<"e", "-", ".">>)
  /\ cfg.allowNegative
  /\ ~cfg.allowDecimal
  /\ SanitizedToken(cfg, ev.text) = <<"-">>
  /\ out = <<Emission(NumOfInt(0), <<"-">>)>>
  /\ rawInputValue = <<"-">>

(***************************************************************************)
(* C13  With negatives allowed, a blur received while rawInputValue is a   *)
(* lone minus sign in any of its four glyph forms applies no min/max       *)
(* clamping whatever the bounds: every result it emits is                  *)
(* {value: 0, formattedValue: "-"}, and when it returns the most recent    *)
(* result is that one and rawInputValue is the ASCII "-".                  *)
(* As stated this fails when the field holds the text of a newer           *)
(* composition; it holds when the field text is the lone minus too.        *)
(***************************************************************************)
BlurLeavesLoneMinus ==
  /\ \A i \in 1..Len(out') : out'[i] = Emission(NumOfInt(0), <<"-">>)
  /\ last' = Emission(NumOfInt(0), <<"-">>)
  /\ rawInputValue' = <<"-">>

LoneMinusValues ==
  { Undefined, StringValue(<<>>), NumberValue(NumOfInt(0)), StringValue(<<"0">>),
    StringValue(<<"-">>), NumberValue(NumOfInt(5)), NumberValue(NumOfInt(-5)),
    NumberValue(Half), StringValue(<<"1", ",", "2", "3", "4">>) }

C14_ResyncKeepsLoneMinus ==
  /\ []( cfg.allowNegative /\ isMinusSign(rawInputValue) =>
           \A v \in LoneMinusValues :
             /\ ResyncRaw(cfg, v, rawInputValue) = rawInputValue
             /\ (FieldText = <<"-">> =>
                   DisplayValue(cfg, v, composingValue, rawInputValue) = <<"-">>) )
  /\ [][ ( /\ cfg.allowNegative
           /\ isMinusSign(rawInputValue)
           /\ ev'.kind = "resync" )
         => /\ rawInputValue' = rawInputValue
            /\ (FieldText = <<"-">> => FieldText' = <<"-">>) ]_vars

\* the parent passes 5 while the user has typed only the minus sign
C14_Witness ==
  /\ ev.kind = "resync"
  /\ cfg.allowNegative
  /\ value = NumberValue(NumOfInt(5))
  /\ rawInputValue = <<"-">>
  /\ FieldText = <<"-">>
  /\ ~effectPending

(***************************************************************************)
(* C15  With decimals allowed, a full-pipeline run whose canonical token   *)
(* ends in a decimal point and is within the safe-integer ceiling emits    *)
(* the literal token as formattedValue (point kept, no separator), the     *)
(* token's number as value whatever the bounds, and leaves rawInputValue   *)
(* equal to the token.                                                     *)
(***************************************************************************)
C15_TrailingPoint ==
  ( /\ ev.kind \in {"changeIdle", "rerun"}
    /\ cfg.allowDecimal
    /\ EndsInPoint(Token)
    /\ WithinCeiling(Token) )
  => /\ ~EndsWith(Token, <<".", ".">>)
     /\ ~ToNumber(Token).nan
     /\ out = <<Emission(ToNumber(Token), Token)>>
     /\ rawInputValue = Token

\* "-1." under bounds [1, 10]: the value stays -1
C15_Witness ==
  /\ ev = Event("changeIdle", <<"-", "1", ".">>)
  /\ cfg.allowDecimal
  /\ cfg.minValue = Some(NumOfInt(1))
  /\ Token = <<"-", "1", ".">>
  /\ out = <<Emission(NumOfInt(-1), <<"-", "1", ".">>)>>
  /\ rawInputValue = <<"-", "1", ".">>

(***************************************************************************)
(* C16  Leading zeros: the canonical token of a full-pipeline run is the   *)
(* sanitized token itself when that is "0", "-0", "0." or "-0.", and       *)
(* otherwise its sign, its integer part with the leading zeros stripped    *)
(* ("0" when that empties it) and its decimal suffix unchanged, point      *)
(* included.                                                               *)
(***************************************************************************)
ReducedKeepingSuffix(t) ==
  LET hasMinus == StartsWith(t, <<"-">>)
      body == IF hasMinus THEN Tail(t) ELSE t
      p == IndexOf(body, ".")
      integerPart == IF p # 0 THEN SubSeq(body, 1, p - 1) ELSE body
      suffix == IF p # 0 THEN SliceFrom(body, p) ELSE <<>>
      cleaned == StripLeadingZeros(integerPart)
  IN IF t \in {<<"0">>, <<"-", "0">>, <<"0", ".">>, <<"-", "0", ".">>} THEN t
     ELSE (IF hasMinus THEN <<"-">> ELSE <<>>)
            \o (IF cleaned = <<>> THEN <<"0">> ELSE cleaned)
            \o suffix

C16_LeadingZeroReducer ==
  \A t \in {SanitizedToken(cfg, ev.text)} :
    ( /\ ev.kind \in {"changeIdle", "rerun"}
      /\ t \notin {<<>>, <<"-">>} )
    => Token = ReducedKeepingSuffix(t)

(***************************************************************************)
(* C17  Minus handling: with negatives allowed, an input that still holds  *)
(* a minus sign once the disallowed characters are removed has a sanitized *)
(* token with exactly one "-", at its first position; with negatives       *)
(* disallowed the sanitized token holds no "-".                            *)
(***************************************************************************)
HasMinusAfterStripping(c, inputValue) ==
  \E i \in 1..Len(inputValue) :
    /\ ConvChar(inputValue[i]) = "-"
    /\ AllowedChar("-", c.allowDecimal, c.allowNegative)

C17_SingleLeadingMinus ==
  \A t \in {SanitizedToken(cfg, ev.text)} :
    ev.kind \in {"changeIdle", "rerun"} =>
      /\ ( cfg.allowNegative /\ HasMinusAfterStripping(cfg, ev.text)
             => Count(t, "-") = 1 /\ Head(t) = "-" )
      /\ ( ~cfg.allowNegative => ~Includes(t, "-") )

(***************************************************************************)
(* C18  maxLength: whenever maxLength is defined (0 included) the          *)
(* sanitized token of a full-pipeline run has at most maxLength digits,    *)
(* sign and decimal point not counted; and with no minValue and maxValue   *)
(* the value emitted for a token that is not empty has at most maxLength   *)
(* digits.                                                                 *)
(***************************************************************************)
C18_MaxLength ==
  ( /\ ev.kind \in {"changeIdle", "rerun"}
    /\ cfg.maxLength.def )
  => /\ DigitCount(SanitizedToken(cfg, ev.text)) <= cfg.maxLength.v
     /\ ( /\ ~cfg.minValue.def
          /\ ~cfg.maxValue.def
          /\ out[1].formattedValue \notin {<<>>, <<"-">>} )
        => DigitCount(NumToString(out[1].value)) <= cfg.maxLength.v

(***************************************************************************)
(* C19  maxDecimalPlaces: with decimals allowed and maxDecimalPlaces = k,  *)
(* the fractional digits of the token of a full-pipeline run are the first *)
(* k fractional digits of the input (cut, not rounded), and the            *)
(* formattedValue emitted has at most k digits after its decimal point.    *)
(* As stated this fails for a separator that holds "." and for a bound     *)
(* with more than k fractional digits; it holds without them.              *)
(***************************************************************************)
AfterPoint(s) ==
  IF IndexOf(s, ".") = 0 THEN <<>> ELSE SliceFrom(s, IndexOf(s, ".") + 1)

Take(s, k) == SubSeq(s, 1, IF Len(s) < k THEN Len(s) ELSE k)

\* the token before the decimal-place limit
UnlimitedToken ==
  SanitizedToken([cfg EXCEPT !.maxDecimalPlaces = None], ev.text)

FractionCut ==
  /\ AfterPoint(SanitizedToken(cfg, ev.text))
       = Take(AfterPoint(UnlimitedToken), cfg.maxDecimalPlaces.v)
  /\ AfterPoint(Token) = AfterPoint(SanitizedToken(cfg, ev.text))
  /\ Len(AfterPoint(out[1].formattedValue)) <= cfg.maxDecimalPlaces.v

BoundWithinPlaces(b) == b.def => Len(b.v.fd) <= cfg.maxDecimalPlaces.v

Grouped(d, sep) ==
  LET piece(i) == (IF i > 1 /\ (Len(d) - i + 1) % 3 = 0 THEN sep ELSE <<>>) \o <<d[i]>>
      RECURSIVE upTo(_)
      upTo(i) == IF i = 0 THEN <<>> ELSE upTo(i - 1) \o piece(i)
  IN upTo(Len(d))

FormattedNumbers ==
  {out[i].value : i \in 1..Len(out)}
    \cup (IF cfg.minValue.def THEN {cfg.minValue.v} ELSE {})
    \cup (IF cfg.maxValue.def THEN {cfg.maxValue.v} ELSE {})

ExceedsCeiling(t) == NumGreater(Abs(ToNumber(t)), NumOfInt(MAX_SAFE_INTEGER))

C21_Overflow ==
  ( /\ ev.kind \in {"changeIdle", "rerun"}
    /\ Token \notin {<<>>, <<"-">>}
    /\ ExceedsCeiling(Token) )
  => \A ceiling \in {Num(Head(Token) = "-", MAX_SAFE_INTEGER, <<>>)} :
       /\ out = <<Emission(ceiling, formatValue(ceiling, cfg.separator))>>
       /\ IsWhole(out[1].value)
       /\ rawInputValue = NumToString(ceiling)

(***************************************************************************)
(* C22  Glyph normalization: a text-changed event in Idle emits the same   *)
(* result and leaves the same rawInputValue as the same event on the text  *)
(* with its full-width digits, full-width period and minus look-alikes     *)
(* replaced by their ASCII equivalents; the conversion is idempotent and   *)
(* changes no other character.                                             *)
(* As stated the last part fails on the full-width comma, which the        *)
(* conversion maps to ","; it holds with the comma among the glyphs.       *)
(***************************************************************************)
AsciiOfGlyph ==
  ("F0" :> "0") @@ ("F1" :> "1") @@ ("F2" :> "2") @@ ("F3" :> "3") @@ ("F4" :> "4")
    @@ ("F5" :> "5") @@ ("F6" :> "6") @@ ("F7" :> "7") @@ ("F8" :> "8") @@ ("F9" :> "9")
    @@ ("F." :> ".") @@ ("F-" :> "-") @@ ("K-" :> "-") @@ ("M-" :> "-")

\* the text with the glyphs of the table replaced
InAscii(t) ==
  [i \in 1..Len(t) |-> IF t[i] \in DOMAIN AsciiOfGlyph THEN AsciiOfGlyph[t[i]] ELSE t[i]]

SameAsOnAscii ==
  \A r \in {ProcessValue(cfg, InAscii(ev.text))} :
    /\ out = <<r.em>>
    /\ rawInputValue = r.rawInputValue
    /\ convertFullWidthToHalfWidth(convertFullWidthToHalfWidth(ev.text))
         = convertFullWidthToHalfWidth(ev.text)

C22_Original ==
  ev.kind = "changeIdle" =>
    /\ SameAsOnAscii
    /\ \A i \in 1..Len(ev.text) :
         ev.text[i] \notin DOMAIN AsciiOfGlyph => ConvChar(ev.text[i]) = ev.text[i]

C22_GlyphNormalization ==
  ev.kind = "changeIdle" =>
    /\ SameAsOnAscii
    /\ \A i \in 1..Len(ev.text) :
         /\ ev.text[i] \in DOMAIN AsciiOfGlyph => ConvChar(ev.text[i]) = AsciiOfGlyph[ev.text[i]]
         /\ ev.text[i] = "F," => ConvChar(ev.text[i]) = ","
         /\ ev.text[i] \notin DOMAIN AsciiOfGlyph \cup {"F,"} => ConvChar(ev.text[i]) = ev.text[i]

\* full-width "-12.5" read as -12.5
C22_Witness ==
  /\ ev = Event("changeIdle", <<"F-", "F1", "F2", "F.", "F5">>)
  /\ InAscii(ev.text) = <<"-", "1", "2", ".", "5">>
  /\ out = <<Emission(Num(TRUE, 12, <<"5">>), <<"-", "1", "2", ".", "5">>)>>
  /\ rawInputValue = <<"-", "1", "2", ".", "5">>

(***************************************************************************)
(* C23  Empty input: a full-pipeline run on a text whose sanitized token   *)
(* is empty emits {value: 0, formattedValue: ""}; a text-changed event or  *)
(* deferred run doing so leaves rawInputValue empty, and with no value     *)
(* prop to show the field is empty, not "0", then and after the            *)
(* resynchronization that follows; so too when rawInputValue was "0".      *)
(***************************************************************************)
NoValueToShow == parseValueProp(value, cfg.separator).nan /\ composingValue = <<>>

C23_EmptyInput ==
  /\ []( ( /\ ev.kind \in PipelineKinds
           /\ SanitizedToken(cfg, ev.text) = <<>> )
         => /\ out # <<>>
            /\ out[1] = Emission(NumOfInt(0), <<>>)
            /\ ( ev.kind \in {"changeIdle", "deferredRun"}
                   => /\ rawInputValue = <<>>
                      /\ (NoValueToShow => FieldText = <<>>) ) )
  /\ [][ ( /\ ev.kind \in {"changeIdle", "deferredRun"}
           /\ SanitizedToken(cfg, ev.text) = <<>>
           /\ ev'.kind = "resync" )
         => (NoValueToShow' => rawInputValue' = <<>> /\ FieldText' = <<>>) ]_vars
  /\ [][ ( /\ rawInputValue = <<"0">>
           /\ ev'.kind = "changeIdle"
           /\ SanitizedToken(cfg, ev'.text) = <<>> )
         => /\ out' = <<Emission(NumOfInt(0), <<>>)>>
            /\ rawInputValue' = <<>> ]_vars

\* the emptied text of a field with no value prop
C23_Witness ==
  /\ ev = Event("changeIdle", <<>>)
  /\ value = Undefined
  /\ out = <<Emission(NumOfInt(0), <<>>)>>
  /\ rawInputValue = <<>>
  /\ FieldText = <<>>
  /\ last = Emission(NumOfInt(0), <<>>)

(***************************************************************************)
(* C24: every text-changed event that is processed, while composing or     *)
(* not, calls onValueChange exactly once, with a pair of a finite number   *)
(* and a text; that pair becomes the last result emitted.                  *)
(***************************************************************************)
ProcessedChangeKinds == {"changeIdle", "changeComposing"}

IsResultPair(e) ==
  /\ DOMAIN e = {"value", "formattedValue"}
  /\ ~e.value.nan /\ IsFinite(e.value)
  /\ DOMAIN e.formattedValue = 1..Len(e.formattedValue)

C24_ExactlyOneEmission ==
  ev.kind \in ProcessedChangeKinds
    => /\ Len(out) = 1
       /\ IsResultPair(out[1])
       /\ last = out[1]

\* a text of characters the options do not allow still produces its one result
C24_Witness ==
  /\ ev = Event("changeIdle", <<"F-">>)
  /\ ~cfg.allowNegative
  /\ out = <<Emission(NumOfInt(0), <<>>)>>

(***************************************************************************)
(* C25: when handleBlur flushes a composition while a callback of an       *)
(* earlier handleCompositionEnd is still queued, that callback, running    *)
(* next, calls onValueChange no more and leaves rawInputValue as the blur  *)
(* left it.                                                                *)
(***************************************************************************)
C25_BlurCancelsDeferredRun ==
  [][ ( /\ ev.kind = "blurComposing"
        /\ pendingFrames # <<>>
        /\ ev'.kind = "deferredRun" )
      => /\ out' = <<>>
         /\ rawInputValue' = rawInputValue
         /\ last' = last ]_vars

(***************************************************************************)
(* C26: after handleCompositionEnd, onChange drops a notification only     *)
(* when it repeats the queued run: it is the first notification since the  *)
(* composition ended and carries the final composed text.  A notification  *)
(* with another text, or a second one before the callback has run, is      *)
(* processed and calls onValueChange.                                      *)
(***************************************************************************)
FinalComposedText == pendingFrames[Len(pendingFrames)]

C26_OnlyDuplicateSuppressed ==
  [][ ( /\ hasProcessedComposition
        /\ pendingFrames # <<>>
        /\ ev'.kind \in {"changeSuppressed", "changeIdle", "changeComposing"} )
      => \/ /\ ev.kind # "changeSuppressed"
            /\ ev'.text = FinalComposedText
         \/ out' # <<>> ]_vars

(***************************************************************************)
(* C27: handleBlur clamps the token its own pipeline run produced: when    *)
(* the run over the field text leaves a token that is neither empty nor    *)
(* the lone minus sign, the last result the handler emits carries the      *)
(* run's value clamped to minValue and maxValue, whatever rawInputValue    *)
(* was before the blur.                                                    *)
(***************************************************************************)
BlurOwnRun == BlurRuns(cfg, ev.kind, ev.text, <<>>)[1]

C27_BlurClampsOwnRun ==
  ( /\ ev.kind \in {"blurComposing", "blurIdle"}
    /\ BlurOwnRun.rawInputValue \notin {<<>>, <<"-">>} )
    => /\ out # <<>>
       /\ last = out[Len(out)]
       /\ last.value = Clamp(BlurOwnRun.em.value, cfg)

(***************************************************************************)
(* C28: in every state of the session rawInputValue is a sanitized token:  *)
(* the pipeline run over rawInputValue, with the same options, leaves      *)
(* rawInputValue as its token.                                             *)
(***************************************************************************)
IsSanitized(c, t) == ProcessValue(c, t).rawInputValue = t

C28_SanitizedToken == IsSanitized(cfg, rawInputValue)

(***************************************************************************)
(* C29: the callback queued by handleCompositionEnd never overwrites the   *)
(* result of a text-changed or blur event handled after that composition   *)
(* ended: running right after such an event, it leaves the last result     *)
(* and rawInputValue as the event left them.                               *)
(***************************************************************************)
ProcessedLater ==
  /\ ev.kind \in {"changeIdle", "changeComposing", "blurComposing", "blurResidual", "blurIdle"}
  /\ out # <<>>
  /\ pendingFrames # <<>>

C29_DeferredRunKeepsLaterResult ==
  [][ (ProcessedLater /\ ev'.kind = "deferredRun")
      => /\ last' = last
         /\ rawInputValue' = rawInputValue ]_vars

(***************************************************************************)
(* C30: while isComposing.current is set, every call of onValueChange      *)
(* carries value 0 and the field text as it is, and after a text change    *)
(* rawInputValue is composingValue.  No handler emits a full-pipeline      *)
(* result or stores another token before the composition ends or the       *)
(* field loses focus, a queued callback of an earlier composition          *)
(* included.                                                               *)
(***************************************************************************)
C30_ComposingEmitsEchoOnly ==
  /\ []( isComposing
           => /\ \A i \in 1..Len(out) : out[i] = Emission(NumOfInt(0), ev.text)
              /\ ( ev.kind = "changeComposing"
                     => rawInputValue = ev.text /\ composingValue = ev.text ) )
  /\ [][ (isComposing /\ isComposing' /\ ev'.kind \notin {"changeComposing", "resync"})
         => rawInputValue' = rawInputValue ]_vars

(***************************************************************************)
(* C31: between events, whenever a callback of handleCompositionEnd is     *)
(* queued, hasProcessedComposition.current is set, so that onChange drops  *)
(* a notification arriving before the callback runs.                       *)
(***************************************************************************)
C31_PendingImpliesFlag == pendingFrames # <<>> => hasProcessedComposition

(***************************************************************************)
(* C32: hasProcessedComposition.current cannot stay set forever: whenever  *)
(* it is set a callback of handleCompositionEnd is queued, it is clear     *)
(* after every blur and every composition start, and with the queued       *)
(* callback scheduled fairly a set flag leads to a cleared one, after      *)
(* which onChange processes the notifications it receives.                 *)
(***************************************************************************)
C32_FlagEventuallyCleared ==
  /\ [](hasProcessedComposition => pendingFrames # <<>>)
  /\ [](ev.kind \in BlurKinds \cup {"compositionStart", "deferredRun"}
          => ~hasProcessedComposition)
  /\ [](ev.kind \in ProcessedChangeKinds => ~hasProcessedComposition)
  /\ hasProcessedComposition ~> ~hasProcessedComposition

\* the callback has run on the composed "0" and cleared the flag
C32_Witness ==
  /\ ev = Event("deferredRun", <<"0">>)
  /\ out = <<Emission(NumOfInt(0), <<"0">>)>>
  /\ ~hasProcessedComposition
  /\ pendingFrames = <<>>

(***************************************************************************)
(* C33: min/max validation is not applied while the user types.  With      *)
(* bounds 0 <= minValue <= maxValue, a text-changed event that appends     *)
(* the next digit of a whole target within the bounds to the displayed     *)
(* text emits the number typed so far, so that the last digit emits the    *)
(* target; and a typed number above maxValue is emitted unclamped.         *)
(***************************************************************************)
TypedNumber(t) == ToNumber(CanonicalToken(cfg, t))

TypesTowardsTarget(t) ==
  \E target \in cfg.minValue.v.ip .. cfg.maxValue.v.ip :
    /\ t # <<>>
    /\ StartsWith(NatToStr(target), SanitizedToken(cfg, t))

C33_TypingIsNotClamped ==
  [][ \A d \in TypingDigits :
        ( /\ ev'.kind = "changeIdle"
          /\ ev'.text = FieldText \o <<d>>
          /\ \/ TypesTowardsTarget(ev'.text)
             \/ /\ NumGreater(TypedNumber(ev'.text), cfg.maxValue.v)
                /\ WithinCeiling(CanonicalToken(cfg, ev'.text)) )
        => /\ out' = <<last'>>
           /\ last'.value = TypedNumber(ev'.text) ]_vars

(***************************************************************************)
(* C34: with a value prop that is absent, empty or not a number, the       *)
(* effect resets rawInputValue to "" unless allowNegative is set and       *)
(* rawInputValue is a lone minus glyph.  So after a text change outside a  *)
(* composition that emitted a number, once the effect has run              *)
(* rawInputValue and the displayed text are empty.                         *)
(***************************************************************************)
NoNumberProp == parseValueProp(value, cfg.separator).nan

KeepsLoneMinus == cfg.allowNegative /\ isMinusSign(rawInputValue)

C34_ResyncClearsToken ==
  /\ [][ (ev'.kind = "resync" /\ NoNumberProp)
         => rawInputValue' = IF KeepsLoneMinus THEN rawInputValue ELSE <<>> ]_vars
  /\ [][ ( /\ ev.kind = "changeIdle"
           /\ NoNumberProp
           /\ ~NumEq(last.value, NumOfInt(0))
           /\ ev'.kind = "resync" )
         => /\ rawInputValue' = <<>>
            /\ FieldText' = <<>>
            /\ last' = last ]_vars

\* "1234.5" typed into a field without a value prop: emitted, then cleared
C34_Witness ==
  /\ ev.kind = "resync"
  /\ value = Undefined
  /\ last.value = Num(FALSE, 1234, <<"5">>)
  /\ rawInputValue = <<>>
  /\ FieldText = <<>>

(***************************************************************************)
(* C35: in the controlled round trip, the parent passing each              *)
(* formattedValue back as the value prop, with no separator or one that    *)
(* is not the decimal point: whenever no composition is under way, no      *)
(* callback is queued and the effect has run, the field shows the          *)
(* formattedValue of the last result emitted.                              *)
(***************************************************************************)
Settled ==
  /\ ~isComposing /\ composingValue = <<>>
  /\ pendingFrames = <<>>
  /\ ~effectPending

C35_DisplayIsLastFormatted ==
  ( /\ cfg.echo
    /\ cfg.separator \in {<<>>, <<",">>}
    /\ Settled
    /\ last # NoEmission )
    => FieldText = last.formattedValue

\* "1234.5" typed with separator ",": emitted and shown as "1,234.5"
C35_Witness ==
  /\ cfg.echo
  /\ cfg.separator = <<",">>
  /\ Settled
  /\ ev.kind = "resync"
  /\ last.formattedValue = <<"1", ",", "2", "3", "4", ".", "5">>
  /\ rawInputValue = <<"1", "2", "3", "4", ".", "5">>
  /\ FieldText = last.formattedValue

(***************************************************************************)
(* C36: a run whose canonical token exceeds the safe-integer ceiling in    *)
(* magnitude returns from the overflow branch, before the min/max clamp:   *)
(* whatever minValue and maxValue are, its one result carries the ceiling  *)
(* with the token's sign and rawInputValue is that ceiling's string, the   *)
(* bounds left unapplied.                                                  *)
(***************************************************************************)
SignedCeiling == Num(Head(Token) = "-", MAX_SAFE_INTEGER, <<>>)

C36_OverflowSkipsClamp ==
  ( /\ ev.kind \in {"changeIdle", "rerun"}
    /\ Token \notin {<<>>, <<"-">>}
    /\ ExceedsCeiling(Token) )
  => /\ Len(out) = 1
     /\ last.value = SignedCeiling
     /\ rawInputValue = NumToString(SignedCeiling)
     /\ (cfg.minValue.def \/ cfg.maxValue.def
           => rawInputValue # NumToString(Clamp(ToNumber(Token), cfg)))

(***************************************************************************)
(* C37: with minValue > maxValue the two bounds are applied one after the  *)
(* other, minValue first, so that every complete token within the ceiling  *)
(* is emitted by the pipeline as maxValue, formatted, and every blur       *)
(* taken with a numeric rawInputValue ends with that same result.          *)
(***************************************************************************)
MinAboveMax ==
  cfg.minValue.def /\ cfg.maxValue.def /\ NumGreater(cfg.minValue.v, cfg.maxValue.v)

MaxResult == Emission(cfg.maxValue.v, formatValue(cfg.maxValue.v, cfg.separator))

IsNumericToken(t) ==
  t # <<>> /\ With(ToNumber(convertFullWidthToHalfWidth(t)), LAMBDA n : ~n.nan /\ IsFinite(n))

C37_CrossedBounds ==
  /\ []( ( /\ MinAboveMax
           /\ ev.kind \in PipelineKinds
           /\ Token \notin {<<>>, <<"-">>, <<"0">>, <<"-", "0">>}
           /\ ~EndsInPoint(Token)
           /\ WithinCeiling(Token) )
         => out[1] = MaxResult )
  /\ [][ ( /\ MinAboveMax
           /\ ev'.kind \in BlurKinds
           /\ IsNumericToken(rawInputValue) )
         => last' = MaxResult ]_vars

(***************************************************************************)
(* C38: the sanitizer's output holds only digits, at most one "-", at      *)
(* position 0 and only if allowNegative, and at most one ".", only if      *)
(* allowDecimal.  "e", "E" and every other character are removed without   *)
(* being evaluated; the digits kept are a subsequence of the input's       *)
(* digits (all of them when no maxLength applies), and the "." kept is     *)
(* the input's first: it parts the digits as that one does.                *)
(***************************************************************************)
SanitizerInput == convertFullWidthToHalfWidth(ev.text)

SanitizerOutput ==
  LET NotE(ch) == ch \notin {"e", "E"}
  IN normalizeNumericInput(Filter(SanitizerInput, NotE), cfg.allowDecimal,
                           cfg.allowNegative, cfg.maxLength)

DigitsOf(s) == Filter(s, IsDigit)

BeforePoint(s) == IF Includes(s, ".") THEN SubSeq(s, 1, IndexOf(s, ".") - 1) ELSE s

RECURSIVE IsSubsequence(_, _)
IsSubsequence(a, b) ==
  IF a = <<>> THEN TRUE
  ELSE IF b = <<>> THEN FALSE
  ELSE IF Head(a) = Head(b) THEN IsSubsequence(Tail(a), Tail(b))
  ELSE IsSubsequence(a, Tail(b))

C38_SanitizerOutput ==
  ev.kind = "changeIdle" =>
    /\ \A i \in 1..Len(SanitizerOutput) :
         /\ SanitizerOutput[i] \in DigitSet \cup {"-", "."}
         /\ (SanitizerOutput[i] = "-" => i = 1 /\ cfg.allowNegative)
    /\ Count(SanitizerOutput, ".") <= 1
    /\ (Includes(SanitizerOutput, ".") => cfg.allowDecimal)
    /\ IsSubsequence(DigitsOf(SanitizerOutput), DigitsOf(SanitizerInput))
    /\ (~cfg.maxLength.def => DigitsOf(SanitizerOutput) = DigitsOf(SanitizerInput))
    /\ ( Includes(SanitizerOutput, ".")
           => /\ Includes(SanitizerInput, ".")
              /\ IsSubsequence(DigitsOf(BeforePoint(SanitizerOutput)),
                               DigitsOf(BeforePoint(SanitizerInput)))
              /\ IsSubsequence(DigitsOf(AfterPoint(SanitizerOutput)),
                               DigitsOf(AfterPoint(SanitizerInput))) )

\* "1e5" is read as the digits 1 and 5, not as 100000
C38_Witness ==
  /\ ev = Event("changeIdle", <<"1", "e", "5">>)
  /\ SanitizerOutput = <<"1", "5">>
  /\ ~cfg.maxLength.def
  /\ ~cfg.minValue.def
  /\ out = <<Emission(NumOfInt(15), <<"1", "5">>)>>

(***************************************************************************)
(* C39: the maxLength cap (maxLength >= 1) never increases the magnitude   *)
(* of the number the token denotes: it removes trailing digits only, and   *)
(* a decimal point in front of digits it keeps stays in front of them.     *)
(***************************************************************************)
UncappedToken ==
  LET NotE(ch) == ch \notin {"e", "E"}
  IN normalizeNumericInput(Filter(SanitizerInput, NotE), cfg.allowDecimal,
                           cfg.allowNegative, None)

C39_CapNeverIncreases ==
  ( /\ ev.kind = "changeIdle"
    /\ cfg.maxLength.def /\ cfg.maxLength.v >= 1
    /\ ~ToNumber(UncappedToken).nan
    /\ ~ToNumber(SanitizerOutput).nan )
  => ~NumGreater(Abs(ToNumber(SanitizerOutput)), Abs(ToNumber(UncappedToken)))

====
